---- MODULE Spec2Model ----
(***************************************************************************)
(* Model of the WhatsApp MCP client: the JSON conversation store           *)
(* (json_history.py) and the MCPClient session of client_v4.py             *)
(* (construction, connect, invoke, reset, close).                          *)
(***************************************************************************)
EXTENDS Integers, Sequences, FiniteSets, Bags, TLC

VARIABLES
    file,        \* chat_history/history.json: [kind, table]
    expect,      \* per thread: turns appended since the record was last empty
    live,        \* an MCPClient object exists in the running process
    thread_id,   \* MCPClient.thread_id
    servers,     \* MCPClient.servers: sequence of transports
    exit_stack,  \* MCPClient.exit_stack: resources registered, oldest first
    tools,       \* MCPClient.tools
    agent,       \* MCPClient.agent: None or the tool set it was created with
    history,     \* MCPClient.history: the in-memory tail
    procs,       \* resources the operating system holds open for the process
    netlog,      \* network sessions the last operation opened: [srv, by, tracked, late]
    pc,          \* position of the invoke coroutine
    frame,       \* locals of the running invoke
    ret,         \* what the last operation gave its caller
    fault,       \* what went wrong underneath the last operation, "none" if nothing
    at_call,     \* the store, tail and last reply as the running/last invoke found them
    closed,      \* close() was called and connect() has not succeeded since
    done,        \* per thread: turns of the appends that returned, since its last clear began writing
    writers,     \* processes calling append() on their own: [pc, entries, data]
    debug,       \* ENABLE_AGENT_DEBUG of the running process
    main,        \* main(): [pc, line (the last line read), n (lines read), calls (invoke calls made for it)]
    second       \* a second invoke coroutine started on the session: [pc, user_input, state]

vars == <<file, expect, live, thread_id, servers, exit_stack, tools,
          agent, history, procs, netlog, pc, frame, ret, fault, at_call, closed,
          done, writers, debug, main, second>>

storeVars == <<file, expect>>
clientVars == <<live, thread_id, servers, exit_stack, tools, agent,
                history, procs, netlog, pc, frame, ret, fault, at_call, closed>>

-----------------------------------------------------------------------------
(* Bounds and input sets *)

MaxTurns == 4
MaxTime == 1
MaxServers == 2
MaxTail == 6

Threads == {"a", "b"}
Writers == {"p", "q"}
Times == 1..MaxTime
Users == {"u1"}

\* load()'s default for last_n (None)
NoLimit == -1
\* the tail entries built by invoke carry no timestamp key
NoTs == 0
\* last_n passed by MCPClient.__init__
TailN == 4

Turn(r, c, ts) == [role |-> r, content |-> c, timestamp |-> ts]

-----------------------------------------------------------------------------
(* json_history.py *)

EmptyTable == [t \in {} |-> <<>>]

\* contents of the history file: absent, zero bytes, an unparsable prefix of a
\* JSON document ("partial"), the JSON document of a table ("json"), or a JSON
\* document that is not an object, here the list [] ("nontable")
FileOf(k, tb) == [kind |-> k, table |-> tb]

\* _load_all salvaging the records whose text is still in an unparsable file
_load_allSalvages(f) == f.table

\* {} for a missing, empty or unparsable file, else whatever json.loads gives
_load_all(f) == IF f.kind \in {"json", "nontable"} THEN f.table ELSE EmptyTable

\* all_data.get on a value that is not a dict raises AttributeError
loadRaises(f) == f.kind = "nontable"

\* json.dump of the whole table into the file opened with "w"
_save_all(data) == FileOf("json", data)

DictGet(d, t) == IF t \in DOMAIN d THEN d[t] ELSE <<>>

\* data[-n:]
LastN(data, n) ==
    IF n >= Len(data) THEN data ELSE SubSeq(data, Len(data) - n + 1, Len(data))

load(f, t, last_n) ==
    LET data == DictGet(_load_all(f), t)
    IN  IF last_n # NoLimit /\ last_n # 0 THEN LastN(data, last_n) ELSE data

\* append() assigning the entries instead of extending the record
appendDataReplace(f, t, entries) ==
    LET all_data == _load_all(f)
    IN  [k \in DOMAIN all_data \cup {t} |-> IF k = t THEN entries ELSE all_data[k]]

\* the table append() hands to _save_all
appendData(f, t, entries) ==
    LET all_data == _load_all(f)
        d1 == IF t \in DOMAIN all_data THEN all_data
              ELSE [k \in DOMAIN all_data \cup {t} |->
                       IF k = t THEN <<>> ELSE all_data[k]]
    IN  [d1 EXCEPT ![t] = @ \o entries]

\* clear() dropping only the newest turn of the record
clearDataDropsLast(f, t) ==
    LET all_data == _load_all(f)
    IN  [k \in DOMAIN all_data \cup {t} |->
            IF k # t THEN all_data[k]
            ELSE IF k \in DOMAIN all_data /\ all_data[k] # <<>>
                 THEN SubSeq(all_data[k], 1, Len(all_data[k]) - 1) ELSE <<>>]

\* the table clear() hands to _save_all
clearData(f, t) ==
    LET all_data == _load_all(f)
    IN  [k \in DOMAIN all_data \cup {t} |-> IF k = t THEN <<>> ELSE all_data[k]]

\* open(HISTORY_FILE, "w") truncates; a write that stops part-way leaves zero
\* bytes or a proper prefix of the document
Truncated == FileOf("empty", EmptyTable)
Broken == {FileOf("empty", EmptyTable), FileOf("partial", EmptyTable)}

\* what _save_all leaves in the file, by how far it got
SaveOutcome(f, data, how) ==
    CASE how = "ok" -> {_save_all(data)}
      [] how = "open_fail" -> {f}
      [] OTHER -> Broken

SaveHows == {"ok", "open_fail", "dump_fail"}

\* bookkeeping of what was appended since the record last read empty
Expected(f2, t, e) == IF load(f2, t, NoLimit) = <<>> THEN <<>> ELSE e

-----------------------------------------------------------------------------
(* The store used directly *)

StoreTurns == {Turn("user", "u1", 1), Turn("assistant", "r1", 1)}
StoreEntries ==
    {<<>>} \cup {<<x>> : x \in StoreTurns}
           \cup {<<x, y>> : x \in StoreTurns, y \in StoreTurns}

ClientIdle ==
    /\ live = FALSE
    /\ thread_id = "a"
    /\ servers = <<>>
    /\ exit_stack = <<>>
    /\ tools = <<>>
    /\ agent = [bound |-> FALSE, tools |-> <<>>]
    /\ history = <<>>
    /\ procs = EmptyBag
    /\ netlog = {}
    /\ pc = "idle"
    /\ frame = [user_input |-> "", state |-> <<>>, message |-> "", data |-> EmptyTable,
                result |-> <<>>, agent_data |-> [made |-> FALSE]]
    /\ ret = [op |-> "none", val |-> "none", n |-> 0]
    /\ fault = "none"
    /\ at_call = [file |-> [kind |-> "absent", table |-> <<>>], tail |-> <<>>,
                  prev |-> "none", user_input |-> ""]
    /\ closed = FALSE

\* main() not started, no second coroutine
NoMain == [pc |-> "start", line |-> <<>>, n |-> 0, calls |-> 0]
NoSecond == [pc |-> "idle", user_input |-> "", state |-> <<>>]
ProgramIdle ==
    /\ main = NoMain
    /\ second = NoSecond

NoDone == [t \in Threads |-> <<>>]
NoWrite == [pc |-> "idle", entries |-> <<>>, data |-> EmptyTable]
NoWriters == [w \in Writers |-> NoWrite]

StoreInit ==
    /\ file = FileOf("absent", EmptyTable)
    /\ expect = [t \in Threads |-> <<>>]
    /\ done = NoDone
    /\ writers = NoWriters
    /\ debug = FALSE
    /\ ProgramIdle
    /\ ClientIdle

\* what a call of the store's interface gave its caller: the value returned,
\* the exception raised, and n: last_n of load, the number of turns handed to
\* append, the number of turns the record held when clear was called
StoreRet(o, t, v, e, k) == [op |-> o, t |-> t, val |-> v, err |-> e, n |-> k]

\* the values of last_n, None and 0 included
Limits == {NoLimit} \cup 0..(MaxTurns + 1)

idleVars == <<live, thread_id, servers, exit_stack, tools, agent, history,
              procs, netlog, pc, frame, fault, at_call, closed, done, writers,
              debug, main, second>>

StoreLoad(t, last_n) ==
    /\ ret' = IF loadRaises(file)
              THEN StoreRet("load", t, <<>>, "AttributeError", last_n)
              ELSE StoreRet("load", t, load(file, t, last_n), "none", last_n)
    /\ UNCHANGED <<file, expect>>
    /\ UNCHANGED idleVars

StoreAppend(t, entries, how) ==
    /\ Len(load(file, t, NoLimit)) + Len(entries) <= MaxTurns
    /\ \E f2 \in SaveOutcome(file, appendData(file, t, entries), how) :
          /\ file' = f2
          /\ expect' = [k \in Threads |->
                Expected(f2, k, IF k = t /\ how = "ok"
                                THEN expect[k] \o entries ELSE expect[k])]
    /\ ret' = StoreRet("append", t, <<>>, IF how = "ok" THEN "none" ELSE "OSError",
                       Len(entries))
    /\ UNCHANGED idleVars

StoreClear(t, how) ==
    /\ \E f2 \in SaveOutcome(file, clearData(file, t), how) :
          /\ file' = f2
          /\ expect' = [k \in Threads |-> Expected(f2, k, expect[k])]
    /\ ret' = StoreRet("clear", t, <<>>, IF how = "ok" THEN "none" ELSE "OSError",
                       Len(load(file, t, NoLimit)))
    /\ UNCHANGED idleVars

StoreNext ==
    \/ \E t \in Threads, last_n \in Limits : StoreLoad(t, last_n)
    \/ \E t \in Threads, e \in StoreEntries, how \in SaveHows : StoreAppend(t, e, how)
    \/ \E t \in Threads, how \in SaveHows : StoreClear(t, how)

SpecStore == StoreInit /\ [][StoreNext]_vars

-----------------------------------------------------------------------------
(* client_v4.py: MCPClient *)

Transports == {"stdio", "http", "bogus"}
ServerSeqs == UNION {[1..k -> Transports] : k \in 0..MaxServers}

Apology == "Request timed out. Please try again."
Technical == "Sorry, I encountered a technical issue. Please try again shortly."
SYSTEM_MESSAGE == [role |-> "system", content |-> "SYSTEM_PROMPT"]

NoAgent == [bound |-> FALSE, tools |-> <<>>]
NoData == [made |-> FALSE]
NoFrame == [user_input |-> "", state |-> <<>>, message |-> "", data |-> EmptyTable,
            result |-> <<>>, agent_data |-> NoData]
Ret(o, v) == [op |-> o, val |-> v, n |-> 0]
NoCall == [file |-> [kind |-> "absent", table |-> <<>>], tail |-> <<>>,
           prev |-> "none", user_input |-> ""]

Res(i, k) == [srv |-> i, kind |-> k]
Tool(i, tr) == [srv |-> i, via |-> tr]

\* what one server does to the connection attempt
Outs(tr) ==
    CASE tr = "stdio" -> {"spawn_fail", "init_fail", "list_fail", "no_tools", "tools"}
      [] tr = "http" -> {"net_fail", "no_tools", "tools"}
      [] OTHER -> {"na"}
FailOuts == {"spawn_fail", "init_fail", "list_fail", "net_fail", "na"}

\* the outcomes of the servers connect() gets to, in order: it contacts the
\* next server only when the one before raised nothing
RECURSIVE Runs(_, _)
Runs(srv, i) ==
    IF i > Len(srv) THEN {<<>>}
    ELSE {<<b>> : b \in Outs(srv[i]) \cap FailOuts}
         \cup {<<g>> \o r : g \in Outs(srv[i]) \ FailOuts, r \in Runs(srv, i + 1)}

Step(st, op, ss, tl, nl, e) ==
    [stack |-> st, opened |-> op, sess |-> ss, tools |-> tl, net |-> nl, err |-> e]

\* the subprocess context entered without exit_stack
_connect_stdio_untracked(i, out) ==
    LET both == <<Res(i, "proc"), Res(i, "sess")>>
        kept == <<Res(i, "sess")>>
    IN  CASE out = "spawn_fail" -> Step(<<>>, <<>>, <<>>, <<>>, {}, "spawn")
          [] out = "init_fail"  -> Step(kept, both, <<>>, <<>>, {}, "handshake")
          [] out = "list_fail"  -> Step(kept, both, <<i>>, <<>>, {}, "list_tools")
          [] out = "no_tools"   -> Step(kept, both, <<i>>, <<>>, {}, "none")
          [] OTHER              -> Step(kept, both, <<i>>, <<Tool(i, "stdio")>>, {}, "none")

\* enter stdio_client, enter ClientSession, initialize, remember the session,
\* list the tools; every context entered goes through exit_stack
_connect_stdio(i, out) ==
    LET both == <<Res(i, "proc"), Res(i, "sess")>>
    IN  CASE out = "spawn_fail" -> Step(<<>>, <<>>, <<>>, <<>>, {}, "spawn")
          [] out = "init_fail"  -> Step(both, both, <<>>, <<>>, {}, "handshake")
          [] out = "list_fail"  -> Step(both, both, <<i>>, <<>>, {}, "list_tools")
          [] out = "no_tools"   -> Step(both, both, <<i>>, <<>>, {}, "none")
          [] OTHER              -> Step(both, both, <<i>>, <<Tool(i, "stdio")>>, {}, "none")

\* MultiServerMCPClient.get_tools(): the client is a local, nothing is entered
\* in exit_stack; the session that lists the tools ends inside get_tools
_connect_http(i, out) ==
    LET listing == {[srv |-> i, by |-> "connect", tracked |-> FALSE, late |-> FALSE]}
    IN  CASE out = "net_fail" -> Step(<<>>, <<>>, <<>>, <<>>, {}, "network")
          [] out = "no_tools" -> Step(<<>>, <<>>, <<>>, <<>>, listing, "none")
          [] OTHER            -> Step(<<>>, <<>>, <<>>, <<Tool(i, "http")>>, listing, "none")

\* the dispatch on spec.transport
connectOne(tr, i, out) ==
    CASE tr = "stdio" -> _connect_stdio(i, out)
      [] tr = "http"  -> _connect_http(i, out)
      [] OTHER        -> Step(<<>>, <<>>, <<>>, <<>>, {}, "ValueError")

\* the for loop of connect(): specs in order, stopping at the first raise
RECURSIVE connectLoop(_, _, _, _)
connectLoop(srv, outs, i, acc) ==
    IF i > Len(srv) \/ i > Len(outs) \/ acc.err # "none" THEN acc
    ELSE LET r == connectOne(srv[i], i, outs[i])
         IN  connectLoop(srv, outs, i + 1,
                 Step(acc.stack \o r.stack, acc.opened \o r.opened,
                      acc.sess \o r.sess, acc.tools \o r.tools,
                      acc.net \cup r.net, r.err))

\* connect() going on to build the agent with an empty tool list
connectErrorNoCheck(acc, llm) ==
    IF acc.err # "none" THEN acc.err
    ELSE IF llm = "fail" THEN "llm"
    ELSE "none"

\* the error connect() re-raises, "none" when it returns
connectError(acc, llm) ==
    IF acc.err # "none" THEN acc.err
    ELSE IF acc.tools = <<>> THEN "RuntimeError"
    ELSE IF llm = "fail" THEN "llm"
    ELSE "none"

SeqBag(sq) == [r \in {sq[i] : i \in DOMAIN sq} |-> Cardinality({i \in DOMAIN sq : sq[i] = r})]

\* MCPClient.__init__: the fields, then the tail read from the store; when
\* load raises, the constructor raises and no object comes to exist
New(t, srv) ==
    /\ ~live
    /\ IF loadRaises(file)
       THEN /\ ret' = Ret("new", "AttributeError")
            /\ UNCHANGED <<live, thread_id, servers, history>>
       ELSE /\ live' = TRUE
            /\ thread_id' = t
            /\ servers' = srv
            /\ history' = load(file, t, TailN)
            /\ ret' = Ret("new", "ok")
    /\ exit_stack' = <<>>
    /\ tools' = <<>>
    /\ agent' = NoAgent
    /\ fault' = "none"
    /\ at_call' = NoCall
    /\ netlog' = {}
    /\ UNCHANGED <<file, expect, done, writers, debug, second, procs, pc, frame, closed>>

\* MCPClient.connect, the servers it contacts answering outs and the model and
\* agent construction ending llm
Connect(outs, llm) ==
    /\ live /\ pc = "idle"
    /\ Len(exit_stack) + 2 * Len(servers) <= 2 * MaxServers
    /\ outs \in Runs(servers, 1)
    /\ \E acc \in {connectLoop(servers, outs, 1,
                                Step(<<>>, <<>>, <<>>, <<>>, {}, "none"))} :
       \E err \in {connectError(acc, llm)} :
           /\ exit_stack' = exit_stack \o acc.stack
           /\ procs' = procs (+) SeqBag(acc.opened)
           /\ netlog' = acc.net
           /\ tools' = IF acc.err = "none" /\ acc.tools # <<>>
                       THEN acc.tools ELSE tools
           /\ agent' = IF err = "none"
                       THEN [bound |-> TRUE, tools |-> acc.tools] ELSE agent
           /\ ret' = Ret("connect", IF err = "none" THEN "ok" ELSE err)
           /\ fault' = IF acc.err # "none" THEN outs[Len(outs)]
                       ELSE IF acc.tools = <<>> THEN "zero_tools"
                       ELSE IF err = "llm" THEN "llm_fail" ELSE "none"
           /\ closed' = (closed /\ err # "none")
    /\ at_call' = NoCall
    /\ UNCHANGED <<file, expect, done, writers, debug, second, live, thread_id, servers, history, pc, frame>>

\* close() raising when it finds nothing registered in exit_stack
CloseOnceOnly ==
    /\ live /\ pc = "idle"
    /\ procs' = procs (-) SeqBag(exit_stack)
    /\ exit_stack' = <<>>
    /\ ret' = [op |-> "close",
               val |-> IF exit_stack = <<>> THEN "RuntimeError" ELSE "ok",
               n |-> Len(exit_stack)]
    /\ fault' = "none"
    /\ at_call' = NoCall
    /\ closed' = TRUE
    /\ netlog' = {}
    /\ UNCHANGED <<file, expect, done, writers, debug, second, live, thread_id, servers, tools, agent,
                   history, pc, frame>>

\* MCPClient.close: exit_stack.aclose() leaves every registered context
Close ==
    /\ live /\ pc = "idle"
    /\ procs' = procs (-) SeqBag(exit_stack)
    /\ exit_stack' = <<>>
    /\ ret' = [op |-> "close", val |-> "ok", n |-> Len(exit_stack)]
    /\ fault' = "none"
    /\ at_call' = NoCall
    /\ closed' = TRUE
    /\ netlog' = {}
    /\ UNCHANGED <<file, expect, done, writers, debug, second, live, thread_id, servers, tools, agent,
                   history, pc, frame>>

\* the process ends (exit, kill, power loss): memory and its resources go,
\* the file stays as it is
Exit ==
    /\ live
    /\ live' = FALSE
    /\ thread_id' = "a"
    /\ servers' = <<>>
    /\ exit_stack' = <<>>
    /\ tools' = <<>>
    /\ agent' = NoAgent
    /\ history' = <<>>
    /\ procs' = EmptyBag
    /\ netlog' = {}
    /\ pc' = "idle"
    /\ frame' = NoFrame
    /\ ret' = Ret("none", "none")
    /\ fault' = "none"
    /\ at_call' = NoCall
    /\ closed' = FALSE
    /\ UNCHANGED <<file, expect, done, writers, debug, second>>

\* a list-valued key of structured_content: absent, or present with its items
Key(h, items) == [has |-> h, items |-> items]
\* ToolMessage.artifact: None, or a dict with structured_content
Artifact(p, c, m) == [present |-> p, contacts |-> c, messages |-> m]
NoArtifact == Artifact(FALSE, Key(FALSE, <<>>), Key(FALSE, <<>>))
ToolCall(nm, ar) == [name |-> nm, args |-> ar]

\* messages of an agent response
FullMsg(c, txt, calls, art) ==
    [cls |-> c, content |-> txt, tool_calls |-> calls, artifact |-> art]
Msg(c, txt) == FullMsg(c, txt, <<>>, NoArtifact)
BaseMessages == {"AIMessage", "ToolMessage", "HumanMessage", "SystemMessage"}

\* the greatest index of a non-empty set of indices: the loop keeps the last
LastIn(S) == CHOOSE i \in S : \A j \in S : j <= i

\* extract_agent_data: the last assistant message with content, the first
\* call of the last message that carries calls, the last tool result and the
\* first contact and message of its structured_content; [0] on an empty list
\* raises IndexError
extract_agent_data(result) ==
    LET ais == {i \in DOMAIN result :
                   result[i].cls = "AIMessage" /\ result[i].content # ""}
        tcs == {i \in DOMAIN result : result[i].tool_calls # <<>>}
        tms == {i \in DOMAIN result : result[i].cls = "ToolMessage"}
        art == IF tms = {} THEN NoArtifact ELSE result[LastIn(tms)].artifact
        raises == /\ art.present
                  /\ \/ art.contacts.has /\ art.contacts.items = <<>>
                     \/ art.messages.has /\ art.messages.items = <<>>
        message_id == IF art.present /\ art.messages.has /\ art.messages.items # <<>>
                      THEN art.messages.items[1].id ELSE ""
    IN  [made |-> TRUE,
         raises |-> raises,
         final_message |-> IF ais = {} THEN "None" ELSE result[LastIn(ais)].content,
         tool_used |-> IF tcs = {} THEN "None"
                       ELSE result[LastIn(tcs)].tool_calls[1].name,
         tool_arguments |-> IF tcs = {} THEN "None"
                            ELSE result[LastIn(tcs)].tool_calls[1].args,
         message_id |-> message_id,
         success |-> message_id # ""]

\* responses the agent gives: a plain answer, and an answer after a tool call
AgentResults ==
    { <<Msg("AIMessage", "r1")>>,
      <<Msg("AIMessage", ""), Msg("ToolMessage", "tr"), Msg("AIMessage", "r2")>> }

\* MCPClient._extract_text on {"messages": [...]}
_extract_text(result) ==
    LET last == result[Len(result)]
    IN  IF last.cls \in BaseMessages THEN last.content
        ELSE IF last.cls = "tuple" THEN last.content
        ELSE "str(result)"

\* the prompt with the tail replayed newest first
PromptStateNewestFirst(hist, user_input) ==
    <<SYSTEM_MESSAGE>>
      \o [i \in 1..Len(hist) |-> [role |-> hist[Len(hist) + 1 - i].role,
                                    content |-> hist[Len(hist) + 1 - i].content]]
      \o <<[role |-> "user", content |-> user_input]>>

\* state["messages"] built by invoke
PromptState(hist, user_input) ==
    <<SYSTEM_MESSAGE>>
      \o [i \in 1..Len(hist) |-> [role |-> hist[i].role, content |-> hist[i].content]]
      \o <<[role |-> "user", content |-> user_input]>>

\* the assistant turn written before the user turn
StoredPairSwapped(user_input, message, now) ==
    <<Turn("assistant", message, now), Turn("user", user_input, now)>>

\* the two turns invoke hands to append()
StoredPair(user_input, message, now) ==
    <<Turn("user", user_input, now), Turn("assistant", message, now)>>

\* the two entries invoke adds to self.history
TailPair(user_input, message) ==
    <<Turn("user", user_input, NoTs), Turn("assistant", message, NoTs)>>

\* room for one more pair in the record, the tail and done, below k turns
Bounded(k) ==
    /\ live
    /\ Len(load(file, thread_id, NoLimit)) + 2 <= k
    /\ Len(history) + 2 <= k
    /\ Len(done[thread_id]) + 2 <= k

\* steps taken by a caller other than main()
Unattended == main' = main

\* invoke recording the user turn in the store before the agent is called
InvokeCallWritesUser(u) ==
    /\ live /\ pc = "idle"
    /\ at_call' = [file |-> file, tail |-> history, prev |-> ret.val, user_input |-> u]
    /\ fault' = "none"
    /\ netlog' = {}
    /\ file' = _save_all(appendData(file, thread_id, <<Turn("user", u, 1)>>))
    /\ IF agent.bound
       THEN /\ pc' = "await"
            /\ frame' = [NoFrame EXCEPT !.user_input = u,
                                        !.state = PromptState(history, u)]
            /\ ret' = Ret("invoke", "pending")
       ELSE /\ pc' = "idle"
            /\ frame' = NoFrame
            /\ ret' = Ret("invoke", Technical)
    /\ UNCHANGED <<expect, done, writers, debug, second, live, thread_id, servers, exit_stack,
                   tools, agent, history, procs, closed>>

\* invoke up to the await: the prompt is built, then self.agent.ainvoke is
\* reached; with self.agent None the attribute lookup raises and the generic
\* handler answers
InvokeCall(u) ==
    /\ live /\ pc = "idle"
    /\ at_call' = [file |-> file, tail |-> history, prev |-> ret.val, user_input |-> u]
    /\ fault' = "none"
    /\ IF agent.bound
       THEN /\ pc' = "await"
            /\ frame' = [NoFrame EXCEPT !.user_input = u,
                                        !.state = PromptState(history, u)]
            /\ ret' = Ret("invoke", "pending")
       ELSE /\ pc' = "idle"
            /\ frame' = NoFrame
            /\ ret' = Ret("invoke", Technical)
    /\ netlog' = {}
    /\ UNCHANGED <<file, expect, done, writers, debug, second, live, thread_id, servers, exit_stack,
                   tools, agent, history, procs, closed>>

\* the timeout handler keeping the user turn in the tail
AgentTimeoutKeepsTurn ==
    /\ pc = "await"
    /\ pc' = "idle"
    /\ frame' = NoFrame
    /\ ret' = Ret("invoke", Apology)
    /\ fault' = "timeout"
    /\ history' = history \o <<Turn("user", frame.user_input, NoTs)>>
    /\ UNCHANGED <<file, expect, done, writers, debug, main, second, live, thread_id, servers, exit_stack,
                   tools, agent, procs, closed, netlog, at_call>>

\* the agent call raises asyncio.TimeoutError
AgentTimeout ==
    /\ pc = "await"
    /\ pc' = "idle"
    /\ frame' = NoFrame
    /\ ret' = Ret("invoke", Apology)
    /\ fault' = "timeout"
    /\ UNCHANGED <<file, expect, done, writers, debug, main, second, live, thread_id, servers, exit_stack,
                   tools, agent, history, procs, closed, netlog, at_call>>

\* the agent call raises any other exception
AgentError ==
    /\ pc = "await"
    /\ pc' = "idle"
    /\ frame' = NoFrame
    /\ ret' = Ret("invoke", Technical)
    /\ fault' = "error"
    /\ UNCHANGED <<file, expect, done, writers, debug, main, second, live, thread_id, servers, exit_stack,
                   tools, agent, history, procs, closed, netlog, at_call>>

\* the network sessions a tool call over http opens (and ends) during the
\* agent call: the http tools carry their own connection settings
ToolSessions(used) ==
    IF used THEN {[srv |-> agent.tools[i].srv, by |-> "tool", tracked |-> FALSE,
                   late |-> closed] :
                     i \in {j \in DOMAIN agent.tools : agent.tools[j].via = "http"}}
    ELSE {}

\* the agent call returns: with debug on the response is summarised (an
\* exception of the extractor ends the turn in the generic handler), the text
\* is extracted, the timestamp taken, append() reads the table, adds the two
\* turns and opens the file for writing
AgentOk(result, now, used, how) ==
    /\ pc = "await"
    /\ LET agent_data == IF debug THEN extract_agent_data(result) ELSE NoData
           thrown == debug /\ agent_data.raises
           message == _extract_text(result)
           data == appendData(file, thread_id,
                              StoredPair(frame.user_input, message, now))
       IN  /\ IF thrown \/ how = "open_fail"
              THEN /\ pc' = "idle"
                   /\ frame' = NoFrame
                   /\ ret' = Ret("invoke", Technical)
                   /\ file' = file
              ELSE /\ pc' = "dump"
                   /\ frame' = [frame EXCEPT !.message = message, !.data = data,
                                             !.result = result,
                                             !.agent_data = agent_data]
                   /\ ret' = ret
                   /\ file' = Truncated
           /\ fault' = IF thrown THEN "extract"
                       ELSE IF how = "open_fail" THEN how ELSE "none"
    /\ netlog' = ToolSessions(used)
    /\ UNCHANGED <<expect, done, writers, debug, main, second, live, thread_id, servers, exit_stack,
                   tools, agent, history, procs, closed, at_call>>

\* json.dump writes the table; then self.history.extend and return; what the
\* step means for done is said where it is used (DumpTracked, Untracked)
InvokeDump(how) ==
    /\ pc = "dump"
    /\ pc' = "idle"
    /\ frame' = NoFrame
    /\ fault' = IF how = "ok" THEN "none" ELSE how
    /\ IF how = "ok"
       THEN /\ file' = _save_all(frame.data)
            /\ history' = history \o TailPair(frame.user_input, frame.message)
            /\ ret' = Ret("invoke", frame.message)
       ELSE /\ file' \in Broken
            /\ history' = history
            /\ ret' = Ret("invoke", Technical)
    /\ UNCHANGED <<expect, writers, debug, main, second, live, thread_id, servers, exit_stack,
                   tools, agent, procs, closed, netlog, at_call>>

\* reset() clearing the store and keeping the tail
ResetKeepsTail(how) ==
    /\ live /\ pc = "idle"
    /\ file' \in SaveOutcome(file, clearData(file, thread_id), how)
    /\ history' = history
    /\ ret' = [op |-> "reset", val |-> IF how = "ok" THEN "ok" ELSE "OSError",
               n |-> Len(load(file, thread_id, NoLimit)) + Len(history)]
    /\ fault' = IF how = "ok" THEN "none" ELSE how
    /\ at_call' = NoCall
    /\ netlog' = {}
    /\ UNCHANGED <<expect, writers, debug, main, second, live, thread_id, servers, exit_stack,
                   tools, agent, procs, closed, pc, frame>>

\* MCPClient.reset: clear(thread_id), then the tail is emptied; an error of the
\* write leaves reset before the assignment; n counts the turns the record and
\* the tail held when it was called; for done see ResetTracked, Untracked
Reset(how) ==
    /\ live /\ pc = "idle"
    /\ file' \in SaveOutcome(file, clearData(file, thread_id), how)
    /\ history' = IF how = "ok" THEN <<>> ELSE history
    /\ ret' = [op |-> "reset", val |-> IF how = "ok" THEN "ok" ELSE "OSError",
               n |-> Len(load(file, thread_id, NoLimit)) + Len(history)]
    /\ fault' = IF how = "ok" THEN "none" ELSE how
    /\ at_call' = NoCall
    /\ netlog' = {}
    /\ UNCHANGED <<expect, writers, debug, main, second, live, thread_id, servers, exit_stack,
                   tools, agent, procs, closed, pc, frame>>

\* the turns of an append that returned are added to done; a clear that got
\* to writing empties it; where nothing follows them, done is left alone
DumpTracked(how) ==
    done' = IF how = "ok"
            THEN [done EXCEPT ![thread_id] = @ \o LastN(frame.data[thread_id], 2)]
            ELSE done
ResetTracked(how) ==
    done' = IF how = "open_fail" THEN done
            ELSE [done EXCEPT ![thread_id] = <<>>]
Untracked == done' = done

Init ==
    /\ file = FileOf("absent", EmptyTable)
    /\ expect = [t \in Threads |-> <<>>]
    /\ done = NoDone
    /\ writers = NoWriters
    /\ debug = FALSE
    /\ ProgramIdle
    /\ ClientIdle

\* conversations: two threads, one local server that answers or fails its
\* handshake, every outcome of the agent call and of the store's writes
Next ==
    \/ \E t \in Threads : New(t, <<"stdio">>) /\ Unattended
    \/ \E outs \in {<<"tools">>, <<"init_fail">>} : Connect(outs, "ok") /\ Unattended
    \/ Close /\ Unattended
    \/ \E u \in Users : Bounded(MaxTurns) /\ InvokeCall(u) /\ Unattended
    \/ AgentTimeout
    \/ AgentError
    \/ \E r \in AgentResults, now \in Times, used \in BOOLEAN,
          how \in {"ok", "open_fail"} : AgentOk(r, now, used, how)
    \/ \E how \in {"ok", "dump_fail"} : InvokeDump(how) /\ Untracked
    \/ \E how \in SaveHows : Reset(how) /\ Untracked
    \/ Exit /\ Unattended

\* connections: every server sequence, one thread, one user text, one reply,
\* a store whose writes succeed
ConnNext ==
    \/ \E srv \in ServerSeqs : New("a", srv) /\ Unattended
    \/ \E outs \in Runs(servers, 1), llm \in {"ok", "fail"} :
          Connect(outs, llm) /\ Unattended
    \/ Close /\ Unattended
    \/ Bounded(MaxTurns) /\ InvokeCall("u1") /\ Unattended
    \/ AgentTimeout
    \/ AgentError
    \/ \E used \in BOOLEAN : AgentOk(<<Msg("AIMessage", "r1")>>, 1, used, "ok")
    \/ InvokeDump("ok") /\ Untracked
    \/ Exit /\ Unattended

SpecConn == Init /\ [][ConnNext]_vars

\* restarts: sessions on one thread that come and go, every outcome of the
\* agent call and of the store's writes, done kept for what was appended
RestartNext ==
    \/ New("a", <<"stdio">>) /\ Unattended
    \/ Connect(<<"tools">>, "ok") /\ Unattended
    \/ Close /\ Unattended
    \/ Bounded(MaxTurns) /\ InvokeCall("u1") /\ Unattended
    \/ AgentTimeout
    \/ AgentError
    \/ \E r \in AgentResults, now \in Times, how \in {"ok", "open_fail"} :
          AgentOk(r, now, FALSE, how)
    \/ \E how \in {"ok", "dump_fail"} : InvokeDump(how) /\ DumpTracked(how)
    \/ \E how \in SaveHows : Reset(how) /\ ResetTracked(how)
    \/ Exit /\ Unattended

SpecRestart == Init /\ [][RestartNext]_vars

\* processes that call append() on their own, each for its own thread; the
\* steps of one call: _load_all and extend, open(HISTORY_FILE, "w"), json.dump
WThread(w) == IF w = "p" THEN "a" ELSE "b"

\* what the writers append: one turn, or the pair invoke appends
WriterEntries ==
    { <<Turn("user", "u1", 1)>>,
      <<Turn("user", "u1", 1), Turn("assistant", "r1", 1)>> }

writerFrame == <<expect, live, thread_id, servers, exit_stack, tools, agent,
                 history, procs, netlog, pc, frame, ret, fault, at_call, closed,
                 debug, main, second>>

WRead(w, entries) ==
    /\ writers[w].pc = "idle"
    /\ Len(done[WThread(w)]) + Len(entries) <= MaxTurns
    /\ writers' = [writers EXCEPT ![w] =
                      [pc |-> "read", entries |-> entries,
                       data |-> appendData(file, WThread(w), entries)]]
    /\ UNCHANGED <<file, done>>
    /\ UNCHANGED writerFrame

WOpen(w) ==
    /\ writers[w].pc = "read"
    /\ file' = Truncated
    /\ writers' = [writers EXCEPT ![w].pc = "open"]
    /\ UNCHANGED done
    /\ UNCHANGED writerFrame

WDump(w) ==
    /\ writers[w].pc = "open"
    /\ file' = _save_all(writers[w].data)
    /\ done' = [done EXCEPT ![WThread(w)] = @ \o writers[w].entries]
    /\ writers' = [writers EXCEPT ![w] = NoWrite]
    /\ UNCHANGED writerFrame

WritersNext ==
    \/ \E w \in Writers, e \in WriterEntries : WRead(w, e)
    \/ \E w \in Writers : WOpen(w)
    \/ \E w \in Writers : WDump(w)

SpecWriters == Init /\ [][WritersNext]_vars

\* long conversations: one thread, writes that succeed, sessions that go on
\* for up to MaxTail turns and are constructed again on what they stored
TailNext ==
    \/ New("a", <<"stdio">>) /\ Unattended
    \/ Connect(<<"tools">>, "ok") /\ Unattended
    \/ Close /\ Unattended
    \/ \E u \in Users : Bounded(MaxTail) /\ InvokeCall(u) /\ Unattended
    \/ AgentTimeout
    \/ AgentError
    \/ \E r \in AgentResults, now \in Times : AgentOk(r, now, FALSE, "ok")
    \/ InvokeDump("ok") /\ Untracked
    \/ Reset("ok") /\ Untracked
    \/ Exit /\ Unattended

SpecTail == Init /\ [][TailNext]_vars

\* what may be found in the history file when a process starts: nothing, zero
\* bytes, text that is no JSON, the JSON list [], and tables
ReadRecords ==
    { <<>>,
      <<Turn("user", "u1", 1)>>,
      <<Turn("user", "u1", 1), Turn("assistant", "r1", 1)>>,
      <<Turn("user", "u1", 1), Turn("assistant", "r1", 1), Turn("user", "u1", 1)>> }
ReadFiles ==
    { FileOf("absent", EmptyTable), FileOf("empty", EmptyTable),
      FileOf("partial", EmptyTable), FileOf("nontable", <<>>),
      FileOf("json", EmptyTable) }
    \cup { FileOf("json", [t \in {"a"} |-> r]) : r \in ReadRecords }

ReadInit ==
    /\ file \in ReadFiles
    /\ expect = [t \in Threads |-> <<>>]
    /\ done = NoDone
    /\ writers = NoWriters
    /\ debug = FALSE
    /\ ProgramIdle
    /\ ClientIdle

\* reading: load called directly, sessions constructed and dropped
ReadNext ==
    \/ \E t \in Threads, last_n \in Limits : StoreLoad(t, last_n)
    \/ \E t \in Threads : New(t, <<"stdio">>) /\ Unattended
    \/ Exit /\ Unattended

SpecRead == ReadInit /\ [][ReadNext]_vars

Spec == Init /\ [][Next]_vars

-----------------------------------------------------------------------------
(* C1: for every thread, load with no limit returns exactly the turns
   appended since its record was last empty, in insertion order. *)
C1_AppendThenLoad ==
    \A t \in Threads : load(file, t, NoLimit) = expect[t]

\* two appends to one thread, read back in order, next to another thread
C1_Witness ==
    /\ Len(expect["a"]) = 3
    /\ expect["a"][1] # expect["a"][2]
    /\ load(file, "a", NoLimit) = expect["a"]
    /\ load(file, "b", NoLimit) # <<>>

-----------------------------------------------------------------------------
(* What the caller of invoke sees *)

Replies == {_extract_text(r) : r \in AgentResults}

InvokeReturned(v) == live /\ pc = "idle" /\ ret.op = "invoke" /\ ret.val = v

Succeeded ==
    live /\ pc = "idle" /\ ret.op = "invoke" /\ ret.val \in Replies

RoleContent(t) == [role |-> t.role, content |-> t.content]

\* the record and the tail are what invoke found plus the (user, assistant) pair
PairAppended ==
    LET old == load(at_call.file, thread_id, NoLimit)
        rec == load(file, thread_id, NoLimit)
        n == Len(old)
        m == Len(at_call.tail)
    IN  /\ Len(rec) = n + 2
        /\ SubSeq(rec, 1, n) = old
        /\ RoleContent(rec[n + 1]) = [role |-> "user", content |-> at_call.user_input]
        /\ RoleContent(rec[n + 2]) = [role |-> "assistant", content |-> ret.val]
        /\ rec[n + 2].timestamp >= rec[n + 1].timestamp
        /\ Len(history) = m + 2
        /\ SubSeq(history, 1, m) = at_call.tail
        /\ RoleContent(history[m + 1]) = RoleContent(rec[n + 1])
        /\ RoleContent(history[m + 2]) = RoleContent(rec[n + 2])

(* C2: when the agent call succeeds and invoke returns its text, the record of
   the thread is the record invoke found plus exactly the user turn and the
   assistant turn (assistant timestamp >= user timestamp), visible to load at
   once, and the tail grew by the same two turns. *)
C2_InvokeAppendsPair == Succeeded => PairAppended

\* a second successful invoke, on a record that already holds a pair
C2_Witness ==
    /\ Succeeded
    /\ Len(load(at_call.file, thread_id, NoLimit)) = 2
    /\ Len(load(file, thread_id, NoLimit)) = 4
    /\ Len(history) = 4

(* C3: when the agent call times out, invoke returns the apology, the store
   and the tail are as before the call, and an invoke that follows and
   succeeds appends its two turns as usual. *)
C3_TimeoutLeavesHistory ==
    /\ InvokeReturned(Apology) => (file = at_call.file /\ history = at_call.tail)
    /\ (Succeeded /\ at_call.prev = Apology) => PairAppended

\* a success right after a timeout, on a thread that had turns before
C3_Witness ==
    /\ Succeeded
    /\ at_call.prev = Apology
    /\ Len(load(file, thread_id, NoLimit)) = 4

(* C4: when a turn fails with any exception other than a timeout, invoke
   returns the technical-issue text and the record of every thread and the
   tail are as before the call. *)
C4_ErrorLeavesHistory ==
    InvokeReturned(Technical) =>
        /\ \A t \in Threads :
              load(file, t, NoLimit) = load(at_call.file, t, NoLimit)
        /\ history = at_call.tail

WholePairs(rec) ==
    /\ Len(rec) % 2 = 0
    /\ \A i \in 1..Len(rec) :
          /\ rec[i].role = (IF i % 2 = 1 THEN "user" ELSE "assistant")
          /\ (i % 2 = 1 => rec[i + 1].timestamp = rec[i].timestamp)

(* C5: in every state, also after the process died anywhere inside invoke, the
   record of each thread is a sequence of whole (user, assistant) pairs; and
   invoke changes the file only once the agent call has returned and the reply
   text is extracted. *)
C5_WholePairsOnly ==
    /\ [](\A t \in Threads : WholePairs(load(file, t, NoLimit)))
    /\ [][(file' # file /\ ret'.op # "reset") =>
            \/ pc = "await" /\ pc' = "dump" /\ frame'.message \in Replies
            \/ pc = "dump"]_vars

\* the process died after the file was truncated and before the table was
\* written
C5_Witness ==
    /\ ~live
    /\ file.kind = "empty"

-----------------------------------------------------------------------------
(* What the caller of connect and close sees *)

CauseOf(out) ==
    CASE out = "spawn_fail" -> "spawn"
      [] out = "init_fail" -> "handshake"
      [] out = "list_fail" -> "list_tools"
      [] out = "net_fail" -> "network"
      [] OTHER -> "ValueError"

(* C6: when connect fails, at the moment the error reaches the caller no
   connection opened by that connect is still open, the session has no agent
   and no tool set if it had none, and the error is the triggering one. *)
C6_FailedConnectReleases ==
    [][ret'.op = "connect" =>
        \A outs \in Runs(servers, 1), llm \in {"ok", "fail"} :
          (Connect(outs, llm) /\ ret'.val # "ok") =>
             /\ procs' = procs
             /\ (~agent.bound => (~agent'.bound /\ tools' = <<>>))
             /\ (fault' \in FailOuts => ret'.val = CauseOf(fault'))]_vars

(* C7: when connecting to server N of M fails, connect raises the cause of
   that failure, and after a following close nothing opened for servers 1..N
   is still open. *)
C7_CloseReleasesPartial ==
    /\ ret.op = "close" => procs = EmptyBag
    /\ (ret.op = "connect" /\ fault \in FailOuts) => ret.val = CauseOf(fault)

\* close released the four contexts of two local servers of a session whose
\* connect had failed
C7_Witness ==
    /\ ret.op = "close"
    /\ ret.n = 4
    /\ Len(servers) = 2
    /\ ~agent.bound
    /\ procs = EmptyBag

(* C8: after a successful connect every subprocess and network session it
   opened is tracked by the session, after close none is open, and the
   session opens no connection once closed. *)
C8_ConnectCloseNoLeak ==
    /\ (ret.op = "connect" /\ ret.val = "ok") =>
          /\ procs = SeqBag(exit_stack)
          /\ \A c \in netlog : c.tracked
    /\ ret.op = "close" => procs = EmptyBag
    /\ \A c \in netlog : ~c.late

(* C9: connect on a server sequence holding an unknown transport fails with
   the configuration error before any connection is opened. *)
C9_UnknownTransportFirst ==
    (ret.op = "connect" /\ \E i \in DOMAIN servers : servers[i] = "bogus") =>
        /\ ret.val = "ValueError"
        /\ procs = EmptyBag
        /\ netlog = {}

(* C10: invoke reaches the agent and appends only in state CONNECTED: never on
   a session without a successful connect, and never on a closed one. *)
C10_InvokeOnlyConnected ==
    /\ pc # "idle" => (agent.bound /\ ~closed)
    /\ (live /\ pc = "idle" /\ ret.op = "invoke" /\ (~agent.bound \/ closed)) =>
          (file = at_call.file /\ history = at_call.tail)

-----------------------------------------------------------------------------
(* What the caller of the store sees *)

\* the k newest elements of a sequence, oldest first
MostRecent(sq, k) ==
    IF k >= Len(sq) THEN sq ELSE [i \in 1..k |-> sq[Len(sq) - k + i]]

(* C11: load(t, limit) returns the most recent min(limit, length) turns of the
   thread in insertion order for every limit >= 0, all its turns when the limit
   is absent, and the empty sequence for a thread the store does not know. *)
C11_LoadMostRecent ==
    ret.op = "load" =>
        /\ ret.err = "none"
        /\ ret.val = IF ret.n = NoLimit THEN expect[ret.t]
                     ELSE MostRecent(expect[ret.t], ret.n)

(* C12: after clear(t) returned, load(t) returns the empty sequence whatever
   the record held, and a second clear(t) right after the first leaves the
   file as the first left it. *)
C12_ClearThenLoadEmpty ==
    /\ []((ret.op = "clear" /\ ret.err = "none") =>
             load(file, ret.t, NoLimit) = <<>>)
    /\ [][(ret.op = "clear" /\ ret.err = "none" /\ ret'.op = "load"
              /\ ret'.t = ret.t) => (ret'.err = "none" /\ ret'.val = <<>>)]_vars
    /\ [][(ret.op = "clear" /\ ret.err = "none" /\ ret'.op = "clear"
              /\ ret'.err = "none" /\ ret'.t = ret.t) => file' = file]_vars

\* clear emptied a record of two turns while the other thread keeps its turns
C12_Witness ==
    /\ ret.op = "clear"
    /\ ret.err = "none"
    /\ ret.n = 2
    /\ load(file, ret.t, NoLimit) = <<>>
    /\ \E t \in Threads : load(file, t, NoLimit) # <<>>

(* C13: on a history file that is absent, empty, or holds anything that is
   not a table of threads, load returns the empty sequence without raising
   and a session is constructed with an empty tail. *)
C13_BadStoreReadsEmpty ==
    file.kind # "json" =>
        /\ ret.op = "load" => (ret.err = "none" /\ ret.val = <<>>)
        /\ ret.op = "new" => (ret.val = "ok" /\ live /\ history = <<>>)

-----------------------------------------------------------------------------
(* Writes that fail or are cut short *)

(* C14: a durable write that fails inside invoke or reset reaches the caller
   of that operation as an error, never as an ordinary return value. *)
C14_WriteFailureSurfaced ==
    (live /\ pc = "idle" /\ fault \in {"open_fail", "dump_fail"}) =>
        ret.val = "OSError"

(* C15: when the process ends during the write of an append for thread t, the
   record of every other thread reads afterwards as it did before the call. *)
C15_InterruptKeepsOthers ==
    [][(pc = "dump" /\ ~live') =>
          \A t \in Threads \ {thread_id} :
              load(file', t, NoLimit) = load(at_call.file, t, NoLimit)]_vars

(* C16: when two processes append to different threads at the same time,
   under every interleaving of their steps the record of each thread holds,
   once both calls have returned, every turn appended to it. *)
C16_ConcurrentAppendsKept ==
    (\A w \in Writers : writers[w].pc = "idle") =>
        \A t \in Threads : load(file, t, NoLimit) = done[t]

-----------------------------------------------------------------------------
(* Zero tools, reset, close, restart *)

(* C17: a connect that finds no tool on any server (an empty server sequence
   included) fails with an error, binds no agent and no tool set, and starts
   each server at most once. *)
C17_ZeroToolsFails ==
    [][(ret'.op = "connect" /\ fault' = "zero_tools") =>
          /\ ret'.val = "RuntimeError"
          /\ agent' = agent
          /\ tools' = tools
          /\ \A r \in BagToSet(procs') :
                CopiesIn(r, procs') <= CopiesIn(r, procs) + 1
          /\ \A i \in DOMAIN servers :
                Cardinality({c \in netlog' : c.srv = i}) <= 1]_vars

\* two servers were contacted, neither had a tool, connect raised
C17_Witness ==
    /\ ret.op = "connect"
    /\ fault = "zero_tools"
    /\ ret.val = "RuntimeError"
    /\ servers = <<"stdio", "http">>
    /\ ~agent.bound
    /\ netlog # {}

(* C18: a reset that returns leaves the record of the session's thread and the
   tail empty and the connections, the tool set and the agent as they were,
   and the prompt of an invoke right after it holds no earlier turn. *)
C18_ResetKeepsConnections ==
    /\ [][(ret'.op = "reset" /\ ret'.val = "ok") =>
             /\ load(file', thread_id, NoLimit) = <<>>
             /\ history' = <<>>
             /\ procs' = procs
             /\ exit_stack' = exit_stack
             /\ tools' = tools
             /\ agent' = agent]_vars
    /\ [][(ret.op = "reset" /\ ret.val = "ok" /\ pc' = "await") =>
             frame'.state = <<SYSTEM_MESSAGE,
                              [role |-> "user", content |-> frame'.user_input]>>]_vars

\* a connected session that held four turns in the record and in the tail
\* was reset
C18_Witness ==
    /\ ret.op = "reset"
    /\ ret.val = "ok"
    /\ ret.n = 8
    /\ agent.bound
    /\ procs # EmptyBag
    /\ history = <<>>

(* C19: close raises nothing and leaves the file alone in every state; on a
   session that never connected, and right after another close, it releases
   nothing and changes nothing. *)
C19_CloseAnyTime ==
    /\ [][ret'.op = "close" => (ret'.val = "ok" /\ file' = file)]_vars
    /\ [][(ret.op \in {"new", "close"} /\ ret'.op = "close") =>
             /\ ret'.n = 0
             /\ procs' = procs
             /\ <<tools', agent', history'>> = <<tools, agent, history>>]_vars

\* a close that found nothing to release on a session whose connect to a
\* local server had succeeded: an earlier close released it
C19_Witness ==
    /\ ret.op = "close"
    /\ ret.n = 0
    /\ servers = <<"stdio">>
    /\ agent.bound
    /\ closed

(* C20: a new session on thread t starts with the last four (or fewer) turns
   that the successful invokes on t appended since its last reset. *)
C20_RecordSurvives ==
    (live /\ ret.op = "new" /\ ret.val = "ok") =>
        history = LastN(done[thread_id], TailN)

-----------------------------------------------------------------------------
(* The prompt and the tail *)

TailMessages(hist) == [i \in 1..Len(hist) |-> RoleContent(hist[i])]

(* C22: the prompt invoke hands to the agent is the system instruction, then
   the tail oldest first with the role and content of each turn, then the new
   user turn; on a session constructed on a record of N <= 4 turns the
   replayed messages are the record's turns in the order they were appended. *)
C22_PromptIsSystemTailUser ==
    pc = "await" =>
        LET rec == load(at_call.file, thread_id, NoLimit)
        IN  /\ frame.state = <<SYSTEM_MESSAGE>> \o TailMessages(at_call.tail)
                               \o <<[role |-> "user", content |-> at_call.user_input]>>
            /\ (Len(rec) <= TailN /\ at_call.tail = rec) =>
                  SubSeq(frame.state, 2, Len(frame.state) - 1) = TailMessages(rec)

\* the agent is called by a session that was constructed on a record of four
\* turns
C22_Witness ==
    /\ pc = "await"
    /\ Len(at_call.tail) = 4
    /\ at_call.tail = load(at_call.file, thread_id, NoLimit)
    /\ Len(frame.state) = 6

(* C23: between operations the tail of a session holds at most four turns,
   the last four of the record of its thread. *)
C23_TailIsWindow ==
    (live /\ pc = "idle") =>
        /\ Len(history) <= TailN
        /\ TailMessages(history) =
              TailMessages(load(file, thread_id, TailN))

-----------------------------------------------------------------------------
(* The response extractor and the debug summary *)

ArtifactSent == Artifact(TRUE, Key(TRUE, <<[wa_id |-> "w1"]>>), Key(TRUE, <<[id |-> "m1"]>>))
ArtifactNoId == Artifact(TRUE, Key(TRUE, <<[wa_id |-> "w1"]>>), Key(TRUE, <<[id |-> ""]>>))
ArtifactBare == Artifact(TRUE, Key(FALSE, <<>>), Key(FALSE, <<>>))
ArtifactNoContacts == Artifact(TRUE, Key(TRUE, <<>>), Key(TRUE, <<[id |-> "m1"]>>))
ArtifactNoMessages == Artifact(TRUE, Key(TRUE, <<[wa_id |-> "w1"]>>), Key(TRUE, <<>>))

Calls(nm) == <<ToolCall(nm, "args_" \o nm)>>

\* response shapes: a plain answer; a tool call, its result and an answer; a
\* response that ends with the tool result; one that ends with an assistant
\* message without content; two rounds of tool calls; tool results without
\* artifact, without lists, without message id, with empty lists
ResponseShapes ==
    { <<Msg("AIMessage", "r1")>>,
      <<FullMsg("AIMessage", "", Calls("t1"), NoArtifact),
        FullMsg("ToolMessage", "tr", <<>>, ArtifactSent),
        Msg("AIMessage", "r2")>>,
      <<FullMsg("AIMessage", "r1", Calls("t1"), NoArtifact),
        FullMsg("ToolMessage", "tr", <<>>, ArtifactSent)>>,
      <<Msg("AIMessage", "r1"), Msg("AIMessage", "")>>,
      <<FullMsg("AIMessage", "", Calls("t1"), NoArtifact),
        FullMsg("ToolMessage", "tr", <<>>, ArtifactNoId),
        FullMsg("AIMessage", "", Calls("t2"), NoArtifact),
        FullMsg("ToolMessage", "tr", <<>>, ArtifactSent),
        Msg("AIMessage", "r2")>>,
      <<FullMsg("AIMessage", "", Calls("t1"), NoArtifact),
        Msg("ToolMessage", "tr"),
        Msg("AIMessage", "r1")>>,
      <<FullMsg("AIMessage", "", Calls("t1"), NoArtifact),
        FullMsg("ToolMessage", "tr", <<>>, ArtifactBare),
        Msg("AIMessage", "r1")>>,
      <<FullMsg("AIMessage", "", Calls("t1"), NoArtifact),
        FullMsg("ToolMessage", "tr", <<>>, ArtifactNoContacts),
        Msg("AIMessage", "r1")>>,
      <<FullMsg("AIMessage", "", Calls("t1"), NoArtifact),
        FullMsg("ToolMessage", "tr", <<>>, ArtifactNoMessages),
        Msg("AIMessage", "r2")>> }

\* AGENT_DEBUG is read from the environment when the program starts
ExtractInit ==
    /\ file = FileOf("absent", EmptyTable)
    /\ expect = [t \in Threads |-> <<>>]
    /\ done = NoDone
    /\ writers = NoWriters
    /\ debug \in BOOLEAN
    /\ ProgramIdle
    /\ ClientIdle

\* one session, every response shape, with and without the debug summary, a
\* store whose writes succeed
ExtractNext ==
    \/ \E t \in Threads : New(t, <<"stdio">>) /\ Unattended
    \/ Connect(<<"tools">>, "ok") /\ Unattended
    \/ \E u \in Users : Bounded(MaxTurns) /\ InvokeCall(u) /\ Unattended
    \/ \E r \in ResponseShapes, now \in Times : AgentOk(r, now, FALSE, "ok")
    \/ InvokeDump("ok") /\ Untracked
    \/ Exit /\ Unattended

SpecExtract == ExtractInit /\ [][ExtractNext]_vars

\* the assistant-authored messages of a response that have content
AssistantTexts(result) ==
    {i \in DOMAIN result : result[i].cls = "AIMessage" /\ result[i].content # ""}

LastAssistantText(result) == result[LastIn(AssistantTexts(result))].content

(* C24: the text invoke returns and stores as the assistant turn is the
   content of the last assistant message of the response that has content,
   whatever the last message of the response is. *)
C24_ReplyIsLastAssistantText ==
    [][(pc = "dump" /\ pc' = "idle" /\ ret'.op = "invoke" /\ fault' = "none"
          /\ AssistantTexts(frame.result) # {}) =>
          LET rec == load(file', thread_id, NoLimit)
          IN  /\ ret'.val = LastAssistantText(frame.result)
              /\ rec[Len(rec)].content = LastAssistantText(frame.result)]_vars

\* the tool calls of a response in arrival order
ToolCallsOf(result) ==
    {i \in DOMAIN result : result[i].tool_calls # <<>>}

FirstToolCall(result) ==
    LET i == CHOOSE k \in ToolCallsOf(result) : \A j \in ToolCallsOf(result) : k <= j
    IN  result[i].tool_calls[1]

(* C26: the summary of a response reports as tool_used and tool_arguments the
   first call of the earliest message that carries tool calls. *)
C26_FirstToolCallWins ==
    (pc = "dump" /\ frame.agent_data.made /\ ToolCallsOf(frame.result) # {}) =>
        /\ frame.agent_data.tool_used = FirstToolCall(frame.result).name
        /\ frame.agent_data.tool_arguments = FirstToolCall(frame.result).args

\* the payload extracted from the last tool result carries a message id
PayloadHasId(result) ==
    LET tms == {i \in DOMAIN result : result[i].cls = "ToolMessage"}
    IN  /\ tms # {}
        /\ LET art == result[LastIn(tms)].artifact
           IN  /\ art.present
               /\ art.messages.has
               /\ art.messages.items # <<>>
               /\ art.messages.items[1].id # ""

(* C27: for every response the summary is made, its final_message is the
   content of the last assistant message with content (None without one) and
   its success flag says whether the structured payload holds a message id. *)
C27_SummaryOfEveryResponse ==
    [][(pc = "await" /\ debug /\ (pc' = "dump" \/ fault' = "extract")) =>
          /\ fault' = "none"
          /\ frame'.agent_data.made
          /\ frame'.agent_data.final_message =
                (IF AssistantTexts(frame'.result) = {} THEN "None"
                 ELSE LastAssistantText(frame'.result))
          /\ frame'.agent_data.success = PayloadHasId(frame'.result)]_vars

(* C28: with debug on, an invoke whose agent call succeeded is never turned
   into a failed turn by the summary: no technical reply, the turns are
   appended. *)
C28_SummaryNeverFailsTurn ==
    [][(pc = "await" /\ debug /\ fault' = "extract") =>
          /\ pc' = "dump"
          /\ ret'.val # Technical]_vars

-----------------------------------------------------------------------------
(* The tail and the record together *)

IsSuffix(a, b) ==
    /\ Len(a) <= Len(b)
    /\ SubSeq(b, Len(b) - Len(a) + 1, Len(b)) = a

(* C29: between the operations of a session the tail, as (role, content)
   pairs, is a suffix of the durable record of the session's thread. *)
C29_TailIsSuffixOfRecord ==
    (live /\ pc = "idle") =>
        IsSuffix(TailMessages(history),
                 TailMessages(load(file, thread_id, NoLimit)))

\* the store file parses as a table of threads
Readable(f) == f.kind \in {"absent", "json"}

\* the records of the threads other than t are the same in f and g
OthersKept(f, g, t) ==
    \A o \in Threads \ {t} : load(g, o, NoLimit) = load(f, o, NoLimit)

(* C30: on a readable store, an invoke of a session (its append) and a reset
   of a session (its clear) on thread t leave the record of every other
   thread as it was. *)
C30_OtherThreadsUntouched ==
    /\ [][(pc \in {"await", "dump"} /\ pc' = "idle" /\ ret'.op = "invoke"
             /\ Readable(at_call.file)) =>
             OthersKept(at_call.file, file', thread_id)]_vars
    /\ [][(live /\ pc = "idle" /\ pc' = "idle" /\ ret'.op = "reset"
             /\ Readable(file)) =>
             OthersKept(file, file', thread_id)]_vars

-----------------------------------------------------------------------------
(* Two invokes on one session *)

\* a second coroutine calls invoke while the first is suspended in the agent
\* call: nothing in invoke refuses it, it builds its prompt from the same tail
OverlapCall(u) ==
    /\ live /\ agent.bound
    /\ pc = "await"
    /\ second.pc = "idle"
    /\ second' = [pc |-> "await", user_input |-> u,
                  state |-> PromptState(history, u)]
    /\ UNCHANGED <<file, expect, live, thread_id, servers, exit_stack, tools,
                   agent, history, procs, netlog, pc, frame, ret, fault, at_call,
                   closed, done, writers, debug, main>>

\* the second coroutine's agent call returns; from there to the end of invoke
\* there is no await, so it appends to the store and extends the tail without
\* the first coroutine running in between
OverlapOk(result, now) ==
    /\ second.pc = "await"
    /\ pc \in {"idle", "await"}
    /\ LET message == _extract_text(result)
       IN  /\ file' = _save_all(appendData(file, thread_id,
                                 StoredPair(second.user_input, message, now)))
           /\ history' = history \o TailPair(second.user_input, message)
    /\ second' = NoSecond
    /\ UNCHANGED <<expect, live, thread_id, servers, exit_stack, tools,
                   agent, procs, netlog, pc, frame, ret, fault, at_call,
                   closed, done, writers, debug, main>>

\* one session used by two coroutines, a store whose writes succeed
FlightNext ==
    \/ New("a", <<"stdio">>) /\ Unattended
    \/ Connect(<<"tools">>, "ok") /\ Unattended
    \/ \E u \in Users : Bounded(MaxTurns) /\ InvokeCall(u) /\ Unattended
    \/ \E r \in AgentResults, now \in Times : AgentOk(r, now, FALSE, "ok")
    \/ InvokeDump("ok") /\ Untracked
    \/ \E u \in {"u1", "u2"} : Bounded(MaxTurns) /\ OverlapCall(u)
    \/ \E r \in AgentResults, now \in Times : OverlapOk(r, now)
    \/ second.pc = "idle" /\ Exit /\ Unattended

SpecFlight == Init /\ [][FlightNext]_vars

(* C25: a session has at most one agent call in flight: a second invoke does
   not build its prompt or reach the agent while the first is outstanding. *)
C25_SingleFlight ==
    ~(pc = "await" /\ second.pc = "await")

-----------------------------------------------------------------------------
(* The interactive loop *)

MaxLines == 3

\* everything but the position of main
sessionVars == <<file, expect, live, thread_id, servers, exit_stack, tools,
                 agent, history, procs, netlog, pc, frame, ret, fault, at_call,
                 closed, done, writers, debug, second>>

IsSpace(c) == c \in {" ", "\t"}

RECURSIVE lstrip(_)
lstrip(s) == IF s # <<>> /\ IsSpace(Head(s)) THEN lstrip(Tail(s)) ELSE s

RECURSIVE rstrip(_)
rstrip(s) ==
    IF s # <<>> /\ IsSpace(s[Len(s)]) THEN rstrip(SubSeq(s, 1, Len(s) - 1)) ELSE s

\* str.strip(): leading and trailing whitespace removed
strip(s) == rstrip(lstrip(s))

UpperCase == <<"E", "X", "I", "T", "Q", "U", "H">>
LowerCase == <<"e", "x", "i", "t", "q", "u", "h">>

\* str.lower() without folding letters
lowerKeepsCase(s) == s

\* str.lower(): every upper-case letter replaced by its lower-case one
lower(s) ==
    [i \in 1..Len(s) |->
        IF \E k \in DOMAIN UpperCase : UpperCase[k] = s[i]
        THEN LowerCase[CHOOSE k \in DOMAIN UpperCase : UpperCase[k] = s[i]]
        ELSE s[i]]

\* the characters of a line as one string
RECURSIVE Join(_)
Join(s) == IF s = <<>> THEN "" ELSE Head(s) \o Join(Tail(s))

ExitWords == {<<"e", "x", "i", "t">>, <<"q", "u", "i", "t">>}

\* lines typed at the prompt
MainLines ==
    { <<>>, <<" ">>, <<" ", "\t">>,
      <<"e", "x", "i", "t">>, <<"E", "x", "i", "t">>,
      <<" ", "q", "u", "i", "t", " ">>, <<"Q", "U", "I", "T">>,
      <<"h", "i">>, <<" ", "H", "i", " ">>, <<"e", "x", "i", "t", "s">> }

\* client = MCPClient(servers): one http server
MainNew ==
    /\ main.pc = "start"
    /\ New("a", <<"http">>)
    /\ main' = [main EXCEPT !.pc = IF ret'.val = "ok" THEN "made" ELSE "failed"]

\* await client.connect(), before the try: an exception ends main there
MainConnect ==
    /\ main.pc = "made"
    /\ \E outs \in Runs(<<"http">>, 1) : Connect(outs, "ok")
    /\ main' = [main EXCEPT !.pc = IF ret'.val = "ok" THEN "input" ELSE "failed"]

\* one pass of the loop up to the call of invoke
MainLine(line) ==
    /\ main.pc = "input"
    /\ main.n < MaxLines
    /\ LET user_input == strip(line)
       IN  IF user_input = <<>>
           THEN /\ main' = [main EXCEPT !.line = line, !.n = @ + 1, !.calls = 0]
                /\ UNCHANGED sessionVars
           ELSE IF lower(user_input) \in ExitWords
           THEN /\ main' = [main EXCEPT !.pc = "finally", !.line = line,
                                        !.n = @ + 1, !.calls = 0]
                /\ UNCHANGED sessionVars
           ELSE /\ InvokeCall(Join(user_input))
                /\ main' = [main EXCEPT !.pc = "invoke", !.line = line,
                                        !.n = @ + 1, !.calls = 1]

\* invoke returned: the response is printed and the loop goes on
MainPrint ==
    /\ main.pc = "invoke"
    /\ pc = "idle"
    /\ main' = [main EXCEPT !.pc = "input"]
    /\ UNCHANGED sessionVars

\* input() raises KeyboardInterrupt or EOFError
MainInterrupt ==
    /\ main.pc = "input"
    /\ main' = [main EXCEPT !.pc = "finally"]
    /\ UNCHANGED sessionVars

\* the task is cancelled while invoke waits for the agent: CancelledError is
\* not an Exception, invoke does not catch it
MainCancel ==
    /\ main.pc = "invoke"
    /\ pc = "await"
    /\ pc' = "idle"
    /\ frame' = NoFrame
    /\ ret' = Ret("invoke", "CancelledError")
    /\ fault' = "cancelled"
    /\ main' = [main EXCEPT !.pc = "finally"]
    /\ UNCHANGED <<file, expect, live, thread_id, servers, exit_stack, tools,
                   agent, history, procs, netlog, at_call, closed, done,
                   writers, debug, second>>

\* finally: await client.close()
MainFinally ==
    /\ main.pc = "finally"
    /\ Close
    /\ main' = [main EXCEPT !.pc = "done"]

\* main returns or raises and the process ends
MainEnd ==
    /\ main.pc \in {"done", "failed"}
    /\ Exit
    /\ main' = NoMain

\* the program: its prompt loop with every kind of line, interrupts, and an
\* agent that answers, times out or fails; store writes succeed
MainNext ==
    \/ MainNew
    \/ MainConnect
    \/ \E line \in MainLines :
          /\ \/ strip(line) = <<>>
             \/ lower(strip(line)) \in ExitWords
             \/ Bounded(MaxTurns)
          /\ MainLine(line)
    \/ MainPrint
    \/ MainInterrupt
    \/ MainCancel
    \/ MainFinally
    \/ MainEnd
    \/ AgentTimeout
    \/ AgentError
    \/ \E r \in AgentResults, now \in Times : AgentOk(r, now, FALSE, "ok")
    \/ InvokeDump("ok") /\ Untracked

SpecMain == Init /\ [][MainNext]_vars

\* the line just read, when this step read one
LineRead == main.pc = "input" /\ main'.n = main.n + 1

BlankLines == {<<>>, <<" ">>, <<" ", "\t">>}

ExitLines ==
    { <<"e", "x", "i", "t">>, <<"E", "x", "i", "t">>,
      <<" ", "q", "u", "i", "t", " ">>, <<"Q", "U", "I", "T">> }

(* C21: in the prompt loop a blank line calls nothing and changes nothing;
   exit or quit in any letter case ends the loop without a call; any other
   line is passed to invoke exactly once; and however the loop is left, close
   has been called and the resources released before the program ends. *)
C21_PromptLoop ==
    /\ [][(LineRead /\ main'.line \in BlankLines) =>
             /\ UNCHANGED sessionVars
             /\ main'.pc = "input"
             /\ main'.calls = 0]_vars
    /\ [][(LineRead /\ main'.line \in ExitLines) =>
             /\ UNCHANGED sessionVars
             /\ main'.pc = "finally"
             /\ main'.calls = 0]_vars
    /\ [][(LineRead /\ main'.line \notin BlankLines \cup ExitLines) =>
             /\ main'.pc = "invoke"
             /\ main'.calls = 1
             /\ ret'.op = "invoke"
             /\ at_call'.user_input = Join(strip(main'.line))]_vars
    /\ [][(main.pc = "invoke" /\ main'.pc = "invoke") =>
             (at_call' = at_call /\ main'.calls = 1)]_vars
    /\ [][(main.pc \in {"input", "invoke"} /\ main'.pc \notin {"input", "invoke"}) =>
             main'.pc = "finally"]_vars
    /\ [][(main.pc = "finally" /\ main'.pc # "finally") =>
             /\ main'.pc = "done"
             /\ ret'.op = "close"
             /\ closed'
             /\ exit_stack' = <<>>]_vars
    /\ [][(live /\ ~live' /\ main.pc \notin {"start", "made", "failed"}) =>
             /\ main.pc = "done"
             /\ closed
             /\ exit_stack = <<>>
             /\ procs = EmptyBag]_vars

\* the loop took a line for the agent, then QUIT, and close has run
C21_Witness ==
    /\ main.pc = "done"
    /\ main.line = <<"Q", "U", "I", "T">>
    /\ main.n = 2
    /\ Len(history) = 2
    /\ ret.op = "close"
    /\ closed

-----------------------------------------------------------------------------
(* Writing to a store that does not parse *)

\* what is left of a table in a file cut short or damaged: the file does not
\* parse, the text of these records is still in its bytes
Residues ==
    { [t \in {"a"} |-> <<Turn("user", "u1", 1), Turn("assistant", "r1", 1)>>],
      [t \in {"a"} |-> <<Turn("user", "u1", 1)>>],
      [t \in Threads |-> <<Turn("user", "u1", 1), Turn("assistant", "r1", 1)>>] }

RecoverInit ==
    /\ file \in {FileOf("partial", tb) : tb \in Residues}
    /\ expect = [t \in Threads |-> <<>>]
    /\ done = NoDone
    /\ writers = NoWriters
    /\ debug = FALSE
    /\ ProgramIdle
    /\ ClientIdle

\* the store's interface on a file that starts unparsable; a write either
\* completes or cannot open the file
RecoverNext ==
    \/ \E t \in Threads, last_n \in {NoLimit, TailN} : StoreLoad(t, last_n)
    \/ \E t \in Threads, e \in WriterEntries, how \in {"ok", "open_fail"} :
          StoreAppend(t, e, how)
    \/ \E t \in Threads, how \in {"ok", "open_fail"} : StoreClear(t, how)

SpecRecover == RecoverInit /\ [][RecoverNext]_vars

Unparsable(f) == f.kind \in {"empty", "partial"}

(* C31: on a store that does not parse, reads give the empty record, and the
   next successful append(t, turns) or clear(t) rewrites the file so that it
   holds thread t's record and nothing else: no other thread's record can be
   read from it any more. *)
C31_RecoveryIsDestructive ==
    /\ [][(Unparsable(file) /\ ret'.op = "load" /\ ret' # ret) =>
             (ret'.err = "none" /\ ret'.val = <<>>)]_vars
    /\ [][(Unparsable(file) /\ ret'.op = "append" /\ ret'.err = "none") =>
             /\ file'.kind = "json"
             /\ DOMAIN file'.table = {ret'.t}
             /\ Len(file'.table[ret'.t]) = ret'.n
             /\ \A o \in Threads \ {ret'.t} : load(file', o, NoLimit) = <<>>]_vars
    /\ [][(Unparsable(file) /\ ret'.op = "clear" /\ ret'.err = "none") =>
             /\ file' = FileOf("json", [k \in {ret'.t} |-> <<>>])
             /\ \A o \in Threads : load(file', o, NoLimit) = <<>>]_vars

\* append on thread b has rewritten a file that still held the turns of
\* thread a: only b's record is in the store
C31_Witness ==
    /\ ret.op = "append"
    /\ ret.t = "b"
    /\ ret.err = "none"
    /\ file.kind = "json"
    /\ DOMAIN file.table = {"b"}
    /\ file.table["b"] # <<>>
    /\ load(file, "a", NoLimit) = <<>>

====
